---- MODULE Spec2Model ----
(***************************************************************************)
(* Model of akai-lpd8-obs: the LPD8 input normalizer (src/lpd8/mod.rs) and *)
(* the OBS event loop, mapping tables, scene cache and action dispatcher   *)
(* (src/obs/mod.rs).                                                       *)
(*                                                                         *)
(* The event loop is one tokio task.  Its position `pc` only changes at    *)
(* the points where the task can be suspended (the select! and the awaits  *)
(* on remote calls); the code between two suspension points is one step.   *)
(* The device callback, the remote session and the two disconnections are  *)
(* the environment and interleave freely with the loop.                    *)
(***************************************************************************)
EXTENDS Integers, Sequences, FiniteSets, TLC

VARIABLES
    scenes,         \* Obs.scenes: scene name -> scene id (catalog)
    inputs,         \* Obs.inputs: input name -> input id (catalog)
    mappings,       \* the Mappings value handed to Obs::start
    pc_mappings,    \* program-change table of the loop
    cc_mappings,    \* control-change table of the loop
    lpd8_messages,  \* the mpsc channel between device callback and loop
    lpd8_open,      \* the channel's sender (device connection) is alive
    events,         \* the remote notification stream, not yet consumed
    connected,      \* the remote connection is alive
    remote_scene,   \* the remote session's actual active scene id
    pc,             \* position of Obs::start / of the spawned loop
    initial_scene,  \* local of Obs::start, moved into the task at the spawn
    current_scene,  \* the loop's scene cache
    pending,        \* scene id of the notification being handled, "" if none
    cur,            \* the control-surface message being (or last) handled
    issued,         \* remote commands issued for `cur`
    outcome,        \* how the loop ended the last event it handled
    disabled,       \* branches the pending select! found closed
    refresh_failed  \* history: a refresh of the cache in the loop has failed

vars == <<scenes, inputs, mappings, pc_mappings, cc_mappings, lpd8_messages,
          lpd8_open, events, connected, remote_scene, pc, initial_scene,
          current_scene, pending, cur, issued, outcome, disabled,
          refresh_failed>>

(***************************************************************************)
(* Bounds                                                                  *)
(***************************************************************************)
\* stands for the capacity of mpsc::channel(100)
QueueCap == 2
\* notifications the remote may have emitted and the loop not yet consumed
MaxEvents == 1

(***************************************************************************)
(* Values                                                                  *)
(***************************************************************************)
EmptyMap == <<>>

Insert(m, k, v) == [x \in (DOMAIN m) \cup {k} |-> IF x = k THEN v ELSE m[x]]

Range(m) == {m[x] : x \in DOMAIN m}

\* Option<u8>::None
NoneU8 == -1

\* crate::Volume
VolPass == [mode |-> "Pass", v |-> 0]
VolValue(v) == [mode |-> "Value", v |-> v]
NoVol == [mode |-> "", v |-> 0]

\* crate::Action, the five kinds execute_action matches on
SetScene(name) == [kind |-> "SetScene", name |-> name, value |-> NoVol]
SetVolume(name, value) == [kind |-> "SetVolume", name |-> name, value |-> value]
ToggleInput(name) == [kind |-> "ToggleInput", name |-> name, value |-> NoVol]
EnableSceneItem(name) == [kind |-> "EnableSceneItem", name |-> name, value |-> NoVol]
DisableSceneItem(name) == [kind |-> "DisableSceneItem", name |-> name, value |-> NoVol]
\* Option<&Action>::None
NoAction == [kind |-> "None", name |-> "", value |-> NoVol]

\* crate::ConditionalAction
ConditionalAction(on, action) == [on |-> on, action |-> action]

(***************************************************************************)
(* lpd8: the input normalizer                                              *)
(***************************************************************************)
RECURSIVE BitAnd(_, _)
BitAnd(a, b) ==
    IF a = 0 \/ b = 0 THEN 0
    ELSE (a % 2) * (b % 2) + 2 * BitAnd(a \div 2, b \div 2)

Input == {"Pad1", "Pad2", "Pad3", "Pad4", "Pad5", "Pad6", "Pad7", "Pad8",
          "Knob1", "Knob2", "Knob3", "Knob4", "Knob5", "Knob6", "Knob7", "Knob8"}

\* Err(LPD8Error::UnknownInput(value))
UnknownInput == "UnknownInput"

TryFromU8_NoAlias(value) ==
    IF value \in 0..7
    THEN <<"Pad1", "Pad2", "Pad3", "Pad4", "Pad5", "Pad6", "Pad7", "Pad8">>[value + 1]
    ELSE IF value \in 70..77
    THEN <<"Knob1", "Knob2", "Knob3", "Knob4", "Knob5", "Knob6", "Knob7",
           "Knob8">>[value - 69]
    ELSE UnknownInput

TryFromU8(value) ==
    IF value = 0 \/ value = 12 THEN "Pad1"
    ELSE IF value = 1 \/ value = 13 THEN "Pad2"
    ELSE IF value = 2 \/ value = 14 THEN "Pad3"
    ELSE IF value = 3 \/ value = 15 THEN "Pad4"
    ELSE IF value = 4 \/ value = 16 THEN "Pad5"
    ELSE IF value = 5 \/ value = 17 THEN "Pad6"
    ELSE IF value = 6 \/ value = 18 THEN "Pad7"
    ELSE IF value = 7 \/ value = 19 THEN "Pad8"
    ELSE IF value = 70 THEN "Knob1"
    ELSE IF value = 71 THEN "Knob2"
    ELSE IF value = 72 THEN "Knob3"
    ELSE IF value = 73 THEN "Knob4"
    ELSE IF value = 74 THEN "Knob5"
    ELSE IF value = 75 THEN "Knob6"
    ELSE IF value = 76 THEN "Knob7"
    ELSE IF value = 77 THEN "Knob8"
    ELSE UnknownInput

\* Lpd8Message, and Option<Lpd8Message>::None
ProgramChange(input) == [kind |-> "ProgramChange", input |-> input, value |-> 0]
ControlChange(input, value) == [kind |-> "ControlChange", input |-> input, value |-> value]
NoMessage == [kind |-> "None", input |-> "", value |-> 0]

program_change_OffByOne(num) ==
    IF TryFromU8(num + 1) = UnknownInput THEN NoMessage
    ELSE ProgramChange(TryFromU8(num + 1))

program_change(num) ==
    IF TryFromU8(num) = UnknownInput THEN NoMessage
    ELSE ProgramChange(TryFromU8(num))

control_change(num, value) ==
    IF TryFromU8(num) = UnknownInput THEN NoMessage
    ELSE ControlChange(TryFromU8(num), value)

process_input(msg) ==
    IF Len(msg) = 0 THEN NoMessage
    ELSE IF BitAnd(msg[1], 192) = 192 /\ Len(msg) = 2 THEN program_change(msg[2])
    ELSE IF BitAnd(msg[1], 176) = 176 /\ Len(msg) = 3 THEN control_change(msg[2], msg[3])
    ELSE NoMessage

(***************************************************************************)
(* obs: the mapping tables                                                 *)
(***************************************************************************)
\* MappingWithDefault::default()
DefaultMapping == [by_value |-> EmptyMap, default |-> NoAction]

\* HashMap::get on a map whose values are actions
MapGet(m, k) == IF k \in DOMAIN m THEN m[k] ELSE NoAction

\* Option::or
OptionOr(a, b) == IF a # NoAction THEN a ELSE b

MappingWithDefault_get_DefaultFirst(mapping, value) ==
    OptionOr(mapping.default, MapGet(mapping.by_value, value))

MappingWithDefault_get(mapping, value) ==
    OptionOr(MapGet(mapping.by_value, value), mapping.default)

\* the body of the inner loop of build_cc_mappings, for one (input, action)
GroupEntry(mapping, action) ==
    IF action.on # NoneU8
    THEN [mapping EXCEPT !.by_value = Insert(@, action.on, action.action)]
    ELSE [mapping EXCEPT !.default = action.action]

\* the inner loop of build_cc_mappings over one block; the inputs of a block
\* are distinct keys, so the iteration order of the block does not matter
GroupBlock(grouped, kv) ==
    [input \in (DOMAIN grouped) \cup (DOMAIN kv) |->
        IF input \in DOMAIN kv
        THEN GroupEntry(IF input \in DOMAIN grouped THEN grouped[input]
                        ELSE DefaultMapping, kv[input])
        ELSE grouped[input]]

RECURSIVE GroupBlocks(_, _)
GroupBlocks(grouped, blocks) ==
    IF blocks = <<>> THEN grouped
    ELSE GroupBlocks(GroupBlock(grouped, Head(blocks)), Tail(blocks))

build_cc_mappings(blocks) == GroupBlocks(EmptyMap, blocks)

\* lines 79 and 87-88 of Obs::start: the action an event resolves to
ResolveAction(pcm, ccm, msg) ==
    IF msg.kind = "ProgramChange" THEN MapGet(pcm, msg.input)
    ELSE IF msg.input \in DOMAIN ccm
         THEN MappingWithDefault_get(ccm[msg.input], msg.value)
         ELSE NoAction

TriggerValue_PadFull(msg) ==
    IF msg.kind = "ProgramChange" THEN 127 ELSE msg.value

\* the `data` argument of execute_action at lines 81 and 89
TriggerValue(msg) == IF msg.kind = "ProgramChange" THEN 0 ELSE msg.value

(***************************************************************************)
(* obs: the action dispatcher                                              *)
(***************************************************************************)
\* a request sent to the remote session; NoCommand when nothing is sent
NoCommand ==
    [kind |-> "none", target |-> "", item |-> 0, enabled |-> FALSE,
     num |-> 0, den |-> 1]
SetCurrentProgramScene(scene_id) ==
    [NoCommand EXCEPT !.kind = "set_current_program_scene", !.target = scene_id]
\* Volume::Mul(num / den)
SetVolumeMul(input_id, num, den) ==
    [NoCommand EXCEPT !.kind = "set_volume", !.target = input_id,
                      !.num = num, !.den = den]
ToggleMute(input_id) ==
    [NoCommand EXCEPT !.kind = "toggle_mute", !.target = input_id]
SetEnabled(scene, item_id, enabled) ==
    [NoCommand EXCEPT !.kind = "set_enabled", !.target = scene,
                      !.item = item_id, !.enabled = enabled]

\* the arms of the match in execute_action: the request each sends before its
\* `.await?`, NoCommand when the name does not resolve
SetSceneArm_ByName(action, scn) ==
    SetCurrentProgramScene(IF action.name \in DOMAIN scn THEN scn[action.name]
                           ELSE action.name)

SetSceneArm(action, scn) ==
    IF action.name \in DOMAIN scn
    THEN SetCurrentProgramScene(scn[action.name]) ELSE NoCommand

SetVolumeArm_Div128(action, data, inp) ==
    IF action.name \in DOMAIN inp
    THEN IF action.value.mode = "Pass"
         THEN SetVolumeMul(inp[action.name], data, 128)
         ELSE SetVolumeMul(inp[action.name], action.value.v, 100)
    ELSE NoCommand

SetVolumeArm(action, data, inp) ==
    IF action.name \in DOMAIN inp
    THEN IF action.value.mode = "Pass"
         THEN SetVolumeMul(inp[action.name], data, 127)
         ELSE SetVolumeMul(inp[action.name], action.value.v, 100)
    ELSE NoCommand

ToggleInputArm(action, inp) ==
    IF action.name \in DOMAIN inp
    THEN ToggleMute(inp[action.name]) ELSE NoCommand

EnableSceneItemArm(action, cs) ==
    IF action.name \in DOMAIN cs.inputs
    THEN SetEnabled(cs.id, cs.inputs[action.name], TRUE) ELSE NoCommand

DisableSceneItemArm(action, cs) ==
    IF action.name \in DOMAIN cs.inputs
    THEN SetEnabled(cs.id, cs.inputs[action.name], FALSE) ELSE NoCommand

execute_action(action, data, cs, scn, inp) ==
    IF action.kind = "SetScene" THEN SetSceneArm(action, scn)
    ELSE IF action.kind = "SetVolume" THEN SetVolumeArm(action, data, inp)
    ELSE IF action.kind = "ToggleInput" THEN ToggleInputArm(action, inp)
    ELSE IF action.kind = "EnableSceneItem" THEN EnableSceneItemArm(action, cs)
    ELSE IF action.kind = "DisableSceneItem" THEN DisableSceneItemArm(action, cs)
    ELSE NoCommand

(***************************************************************************)
(* The remote session and the configuration the runs are drawn from        *)
(***************************************************************************)
SceneIds == {"scene-A", "scene-B"}

\* the catalogs Obs::connect snapshots
SceneCatalog == [n \in {"Camera A", "Camera B"} |->
                    IF n = "Camera A" THEN "scene-A" ELSE "scene-B"]
InputCatalog == [n \in {"Mic"} |-> "input-mic"]

\* the item lists the remote session may answer gather_scene_inputs with;
\* the item ids of the two scenes are kept apart so that an id tells its scene
ItemLists(scene_id) ==
    IF scene_id = "scene-A"
    THEN {[n \in {"cam", "mic"} |-> IF n = "cam" THEN 11 ELSE 12],
          [n \in {"cam"} |-> 11]}
    ELSE {[n \in {"cam"} |-> 21],
          [n \in {"cam", "logo"} |-> IF n = "cam" THEN 21 ELSE 22]}

\* no duplicate entry; the action set of Knob1 has only a default
ConfigA ==
    [program_changes |-> [i \in {"Pad1"} |-> SetScene("Camera A")],
     control_changes |->
        << [i \in {"Knob1"} |-> ConditionalAction(NoneU8, ToggleInput("Mic"))] >>]

\* two entries for (Knob1, 64); a value entry and a default for Knob1
ConfigB ==
    [program_changes |-> [i \in {"Pad1"} |-> SetScene("Nowhere")],
     control_changes |->
        << [i \in {"Knob1"} |-> ConditionalAction(64, DisableSceneItem("cam"))],
           [i \in {"Knob1"} |-> ConditionalAction(64, SetVolume("Mic", VolPass))],
           [i \in {"Knob1"} |-> ConditionalAction(NoneU8, ToggleInput("Ghost"))] >>]

\* two defaults for Knob1
ConfigC ==
    [program_changes |-> [i \in {"Pad1"} |-> SetVolume("Mic", VolPass)],
     control_changes |->
        << [i \in {"Knob1"} |-> ConditionalAction(NoneU8, EnableSceneItem("cam"))],
           [i \in {"Knob1"} |-> ConditionalAction(64, EnableSceneItem("logo"))],
           [i \in {"Knob1"} |-> ConditionalAction(NoneU8, DisableSceneItem("mic"))] >>]

\* Pad1 is not in the program-change table; Knob1 has a value entry and no
\* default
ConfigD ==
    [program_changes |-> [i \in {"Pad2"} |-> ToggleInput("Mic")],
     control_changes |->
        << [i \in {"Knob1"} |-> ConditionalAction(64, SetVolume("Ghost", VolPass))] >>]

\* Knob1 has no action set
ConfigE ==
    [program_changes |-> [i \in {"Pad1"} |-> SetVolume("Mic", VolValue(50))],
     control_changes |->
        << [i \in {"Pad1"} |-> ConditionalAction(NoneU8, EnableSceneItem("cam"))] >>]

Configs == {ConfigA, ConfigB, ConfigC, ConfigD, ConfigE}

\* the raw messages the device delivers in the runs
RawMessages ==
    { <<192, 0>>, <<176, 70, 64>>, <<176, 70, 1>>,
      <<192, 99>>, <<>>, <<144, 0, 0>>, <<176, 70>> }

\* Event::CurrentProgramSceneChanged { id } and any other Event
SceneChanged(id) == [type |-> "CurrentProgramSceneChanged", id |-> id]
OtherEvent == [type |-> "Other", id |-> ""]

NoScene == [id |-> "", inputs |-> EmptyMap]
NoCur == [msg |-> NoMessage, raw |-> <<>>, action |-> NoAction]

(***************************************************************************)
(* State machine                                                           *)
(***************************************************************************)
Init ==
    /\ scenes = SceneCatalog
    /\ inputs = InputCatalog
    /\ mappings \in Configs
    /\ pc_mappings = EmptyMap
    /\ cc_mappings = EmptyMap
    /\ lpd8_messages = <<>>
    /\ lpd8_open = TRUE
    /\ events = <<>>
    /\ connected = TRUE
    /\ remote_scene \in SceneIds
    /\ pc = "start"
    /\ initial_scene = ""
    /\ current_scene = NoScene
    /\ pending = ""
    /\ cur = NoCur
    /\ issued = <<>>
    /\ outcome = "none"
    /\ disabled = {}
    /\ refresh_failed = FALSE

\* the spawned task exists and has not panicked
Running == pc \in {"select", "dispatch_wait", "gather_wait"}

\* client.events() has been called and the stream, owned by the task, is alive
Subscribed == Running

\* the receiver half of the channel has not been dropped
ReceiverAlive == pc \notin {"start_failed", "panicked"}

\* ---- Obs::start, before the spawn ----
StartSceneOk ==
    /\ pc = "start"
    /\ connected
    /\ initial_scene' = remote_scene
    /\ pc' = "start_items"
    /\ UNCHANGED <<refresh_failed, scenes, inputs, mappings, pc_mappings,
                   cc_mappings,
                   lpd8_messages, lpd8_open, events, connected, remote_scene,
                   current_scene, pending, cur, issued, outcome, disabled>>

StartSceneErr ==
    /\ pc = "start"
    /\ pc' = "start_failed"
    /\ UNCHANGED <<refresh_failed, scenes, inputs, mappings, pc_mappings,
                   cc_mappings,
                   lpd8_messages, lpd8_open, events, connected, remote_scene,
                   initial_scene, current_scene, pending, cur, issued, outcome,
                   disabled>>

StartItemsOk_Requery(initial_inputs) ==
    /\ pc = "start_items"
    /\ connected
    /\ initial_inputs \in ItemLists(initial_scene)
    /\ pc_mappings' = mappings.program_changes
    /\ cc_mappings' = build_cc_mappings(mappings.control_changes)
    /\ current_scene' = [id |-> remote_scene, inputs |-> initial_inputs]
    /\ initial_scene' = ""
    /\ pc' = "select"
    /\ UNCHANGED <<refresh_failed, scenes, inputs, mappings, lpd8_messages, lpd8_open, events,
                   connected, remote_scene, pending, cur, issued, outcome,
                   disabled>>

StartItemsOk(initial_inputs) ==
    /\ pc = "start_items"
    /\ connected
    /\ initial_inputs \in ItemLists(initial_scene)
    /\ pc_mappings' = mappings.program_changes
    /\ cc_mappings' = build_cc_mappings(mappings.control_changes)
    /\ current_scene' = [id |-> initial_scene, inputs |-> initial_inputs]
    /\ initial_scene' = ""
    /\ pc' = "select"
    /\ UNCHANGED <<refresh_failed, scenes, inputs, mappings, lpd8_messages, lpd8_open, events,
                   connected, remote_scene, pending, cur, issued, outcome,
                   disabled>>

StartItemsErr ==
    /\ pc = "start_items"
    /\ pc' = "start_failed"
    /\ UNCHANGED <<refresh_failed, scenes, inputs, mappings, pc_mappings,
                   cc_mappings,
                   lpd8_messages, lpd8_open, events, connected, remote_scene,
                   initial_scene, current_scene, pending, cur, issued, outcome,
                   disabled>>

\* ---- the spawned loop: select! branch on lpd8_messages.recv() ----
LoopRecvMessage_EventsFirst ==
    /\ pc = "select"
    /\ events = <<>>
    /\ lpd8_messages # <<>>
    /\ LET m == Head(lpd8_messages)
           action == ResolveAction(pc_mappings, cc_mappings, m.msg)
           command == IF action = NoAction THEN NoCommand
                      ELSE execute_action(action, TriggerValue(m.msg),
                                          current_scene, scenes, inputs)
       IN /\ cur' = [msg |-> m.msg, raw |-> m.raw, action |-> action]
          /\ issued' = IF command = NoCommand THEN <<>> ELSE <<command>>
          /\ pc' = IF command = NoCommand THEN "select" ELSE "dispatch_wait"
    /\ lpd8_messages' = Tail(lpd8_messages)
    /\ outcome' = "none"
    /\ disabled' = {}
    /\ UNCHANGED <<refresh_failed, scenes, inputs, mappings, pc_mappings,
                   cc_mappings, lpd8_open, events, connected, remote_scene,
                   initial_scene, current_scene, pending>>

LoopRecvMessage ==
    /\ pc = "select"
    /\ lpd8_messages # <<>>
    /\ LET m == Head(lpd8_messages)
           action == ResolveAction(pc_mappings, cc_mappings, m.msg)
           command == IF action = NoAction THEN NoCommand
                      ELSE execute_action(action, TriggerValue(m.msg),
                                          current_scene, scenes, inputs)
       IN /\ cur' = [msg |-> m.msg, raw |-> m.raw, action |-> action]
          /\ issued' = IF command = NoCommand THEN <<>> ELSE <<command>>
          /\ pc' = IF command = NoCommand THEN "select" ELSE "dispatch_wait"
    /\ lpd8_messages' = Tail(lpd8_messages)
    /\ outcome' = "none"
    /\ disabled' = {}
    /\ UNCHANGED <<refresh_failed, scenes, inputs, mappings, pc_mappings,
                   cc_mappings, lpd8_open,
                   events, connected, remote_scene, initial_scene,
                   current_scene, pending>>

DispatchOk_UpdatesCache ==
    /\ pc = "dispatch_wait"
    /\ connected
    /\ pc' = "select"
    /\ current_scene' =
           IF issued[1].kind = "set_current_program_scene"
           THEN [current_scene EXCEPT !.id = issued[1].target]
           ELSE current_scene
    /\ UNCHANGED <<refresh_failed, scenes, inputs, mappings, pc_mappings,
                   cc_mappings, lpd8_messages, lpd8_open, events, connected,
                   remote_scene, initial_scene, pending, cur, issued, outcome,
                   disabled>>

\* the awaited remote command answers Ok
DispatchOk ==
    /\ pc = "dispatch_wait"
    /\ connected
    /\ pc' = "select"
    /\ UNCHANGED <<refresh_failed, scenes, inputs, mappings, pc_mappings,
                   cc_mappings,
                   lpd8_messages, lpd8_open, events, connected, remote_scene,
                   initial_scene, current_scene, pending, cur, issued, outcome,
                   disabled>>

DispatchErr_Unwrap ==
    /\ pc = "dispatch_wait"
    /\ pc' = "panicked"
    /\ outcome' = "action_error"
    /\ UNCHANGED <<refresh_failed, scenes, inputs, mappings, pc_mappings,
                   cc_mappings,
                   lpd8_messages, lpd8_open, events, connected, remote_scene,
                   initial_scene, current_scene, pending, cur, issued, disabled>>

\* the awaited remote command answers Err: execute_action returns it, the
\* loop logs "Unable to execute action"
DispatchErr ==
    /\ pc = "dispatch_wait"
    /\ pc' = "select"
    /\ outcome' = "action_error"
    /\ UNCHANGED <<refresh_failed, scenes, inputs, mappings, pc_mappings,
                   cc_mappings,
                   lpd8_messages, lpd8_open, events, connected, remote_scene,
                   initial_scene, current_scene, pending, cur, issued, disabled>>

\* ---- the spawned loop: select! branch on events.next() ----
LoopRecvEvent_AnyTypeRefreshes ==
    /\ pc = "select"
    /\ events # <<>>
    /\ events' = Tail(events)
    /\ pending' = Head(events).id
    /\ pc' = "gather_wait"
    /\ outcome' = "none"
    /\ disabled' = {}
    /\ UNCHANGED <<refresh_failed, scenes, inputs, mappings, pc_mappings,
                   cc_mappings, lpd8_messages, lpd8_open, connected,
                   remote_scene, initial_scene, current_scene, cur, issued>>

LoopRecvEvent_OwnTask ==
    /\ pc \in {"select", "dispatch_wait"}
    /\ events # <<>>
    /\ events' = Tail(events)
    /\ IF Head(events).type = "CurrentProgramSceneChanged"
       THEN /\ pending' = Head(events).id
            /\ pc' = "gather_wait"
       ELSE UNCHANGED <<pending, pc>>
    /\ outcome' = "none"
    /\ disabled' = {}
    /\ UNCHANGED <<refresh_failed, scenes, inputs, mappings, pc_mappings,
                   cc_mappings, lpd8_messages, lpd8_open, connected,
                   remote_scene, initial_scene, current_scene, cur, issued>>

LoopRecvEvent ==
    /\ pc = "select"
    /\ events # <<>>
    /\ events' = Tail(events)
    /\ IF Head(events).type = "CurrentProgramSceneChanged"
       THEN /\ pending' = Head(events).id
            /\ pc' = "gather_wait"
       ELSE UNCHANGED <<pending, pc>>
    /\ outcome' = "none"
    /\ disabled' = {}
    /\ UNCHANGED <<refresh_failed, scenes, inputs, mappings, pc_mappings,
                   cc_mappings,
                   lpd8_messages, lpd8_open, connected, remote_scene,
                   initial_scene, current_scene, cur, issued>>

GatherOk_IdOnly(scene_inputs) ==
    /\ pc = "gather_wait"
    /\ connected
    /\ scene_inputs \in ItemLists(pending)
    /\ current_scene' = [current_scene EXCEPT !.id = pending]
    /\ pending' = ""
    /\ pc' = "select"
    /\ outcome' = "replaced"
    /\ UNCHANGED <<refresh_failed, scenes, inputs, mappings, pc_mappings,
                   cc_mappings,
                   lpd8_messages, lpd8_open, events, connected, remote_scene,
                   initial_scene, cur, issued, disabled>>

\* gather_scene_inputs answers Ok(scene_inputs)
GatherOk(scene_inputs) ==
    /\ pc = "gather_wait"
    /\ connected
    /\ scene_inputs \in ItemLists(pending)
    /\ current_scene' = [id |-> pending, inputs |-> scene_inputs]
    /\ pending' = ""
    /\ pc' = "select"
    /\ outcome' = "replaced"
    /\ UNCHANGED <<refresh_failed, scenes, inputs, mappings, pc_mappings,
                   cc_mappings,
                   lpd8_messages, lpd8_open, events, connected, remote_scene,
                   initial_scene, cur, issued, disabled>>

GatherErr_ClearsCache ==
    /\ pc = "gather_wait"
    /\ current_scene' = [id |-> pending, inputs |-> EmptyMap]
    /\ pending' = ""
    /\ pc' = "select"
    /\ outcome' = "gather_error"
    /\ refresh_failed' = TRUE
    /\ UNCHANGED <<scenes, inputs, mappings, pc_mappings, cc_mappings,
                   lpd8_messages, lpd8_open, events, connected, remote_scene,
                   initial_scene, cur, issued, disabled>>

\* gather_scene_inputs answers Err: logged
GatherErr ==
    /\ pc = "gather_wait"
    /\ pending' = ""
    /\ pc' = "select"
    /\ outcome' = "gather_error"
    /\ refresh_failed' = TRUE
    /\ UNCHANGED <<scenes, inputs, mappings, pc_mappings, cc_mappings,
                   lpd8_messages, lpd8_open, events, connected, remote_scene,
                   initial_scene, current_scene, cur, issued, disabled>>

\* recv() yields None on a closed, drained channel and next() yields None on
\* an ended stream; a pattern that does not match disables its branch
DeviceExhausted == ~lpd8_open /\ lpd8_messages = <<>>
RemoteExhausted == ~connected /\ events = <<>>

\* the pending select! polls a branch whose source is exhausted: the pattern
\* Some(..) does not match and the branch is disabled for this select!
LoopBranchClosed(branch) ==
    /\ pc = "select"
    /\ branch \notin disabled
    /\ \/ branch = "lpd8_messages" /\ DeviceExhausted
       \/ branch = "events" /\ RemoteExhausted
    /\ disabled' = disabled \cup {branch}
    /\ UNCHANGED <<refresh_failed, scenes, inputs, mappings, pc_mappings,
                   cc_mappings,
                   lpd8_messages, lpd8_open, events, connected, remote_scene,
                   pc, initial_scene, current_scene, pending, cur, issued,
                   outcome>>

\* select! with every branch disabled and no else branch panics
LoopPanic ==
    /\ pc = "select"
    /\ disabled = {"lpd8_messages", "events"}
    /\ pc' = "panicked"
    /\ UNCHANGED <<refresh_failed, scenes, inputs, mappings, pc_mappings,
                   cc_mappings,
                   lpd8_messages, lpd8_open, events, connected, remote_scene,
                   initial_scene, current_scene, pending, cur, issued, outcome,
                   disabled>>

\* ---- environment ----
Callback_TrySend(raw, capacity) ==
    /\ lpd8_open
    /\ IF process_input(raw) # NoMessage /\ ReceiverAlive
          /\ Len(lpd8_messages) < capacity
       THEN lpd8_messages' =
                Append(lpd8_messages, [msg |-> process_input(raw), raw |-> raw])
       ELSE UNCHANGED lpd8_messages
    /\ UNCHANGED <<refresh_failed, scenes, inputs, mappings, pc_mappings,
                   cc_mappings, lpd8_open, events, connected, remote_scene, pc,
                   initial_scene, current_scene, pending, cur, issued, outcome,
                   disabled>>

\* the midir callback of Lpd8::connect on a channel of the given capacity:
\* blocking_send waits on a full channel and answers Err, which is logged,
\* once the receiver is dropped
Callback(raw, capacity) ==
    /\ lpd8_open
    /\ IF process_input(raw) # NoMessage /\ ReceiverAlive
       THEN /\ Len(lpd8_messages) < capacity
            /\ lpd8_messages' =
                 Append(lpd8_messages, [msg |-> process_input(raw), raw |-> raw])
       ELSE UNCHANGED lpd8_messages
    /\ UNCHANGED <<refresh_failed, scenes, inputs, mappings, pc_mappings,
                   cc_mappings, lpd8_open, events, connected, remote_scene, pc,
                   initial_scene, current_scene, pending, cur, issued, outcome,
                   disabled>>

DeviceCallback(raw) == Callback(raw, QueueCap)

\* the device connection (and with it the sender) is dropped
DeviceDisconnect ==
    /\ lpd8_open
    /\ lpd8_open' = FALSE
    /\ UNCHANGED <<refresh_failed, scenes, inputs, mappings, pc_mappings,
                   cc_mappings,
                   lpd8_messages, events, connected, remote_scene, pc,
                   initial_scene, current_scene, pending, cur, issued, outcome,
                   disabled>>

\* the remote session switches its active scene (on anyone's request, this
\* program's set_current_program_scene included) and notifies subscribers
RemoteSceneChange(id) ==
    /\ connected
    /\ id # remote_scene
    /\ remote_scene' = id
    /\ IF Subscribed
       THEN /\ Len(events) < MaxEvents
            /\ events' = Append(events, SceneChanged(id))
       ELSE UNCHANGED events
    /\ UNCHANGED <<refresh_failed, scenes, inputs, mappings, pc_mappings,
                   cc_mappings,
                   lpd8_messages, lpd8_open, connected, pc, initial_scene,
                   current_scene, pending, cur, issued, outcome, disabled>>

\* the remote session emits a notification of another type
RemoteOtherEvent ==
    /\ connected
    /\ Subscribed
    /\ Len(events) < MaxEvents
    /\ events' = Append(events, OtherEvent)
    /\ UNCHANGED <<refresh_failed, scenes, inputs, mappings, pc_mappings,
                   cc_mappings,
                   lpd8_messages, lpd8_open, connected, remote_scene, pc,
                   initial_scene, current_scene, pending, cur, issued, outcome,
                   disabled>>

\* the remote connection drops: the stream ends after what it still holds
RemoteDisconnect ==
    /\ connected
    /\ connected' = FALSE
    /\ UNCHANGED <<refresh_failed, scenes, inputs, mappings, pc_mappings,
                   cc_mappings,
                   lpd8_messages, lpd8_open, events, remote_scene, pc,
                   initial_scene, current_scene, pending, cur, issued, outcome,
                   disabled>>

Next ==
    \/ StartSceneOk
    \/ StartSceneErr
    \/ \E initial_inputs \in ItemLists(initial_scene) : StartItemsOk(initial_inputs)
    \/ StartItemsErr
    \/ LoopRecvMessage
    \/ DispatchOk
    \/ DispatchErr
    \/ LoopRecvEvent
    \/ \E scene_inputs \in ItemLists(pending) : GatherOk(scene_inputs)
    \/ GatherErr
    \/ \E branch \in {"lpd8_messages", "events"} : LoopBranchClosed(branch)
    \/ LoopPanic
    \/ \E raw \in RawMessages : DeviceCallback(raw)
    \/ DeviceDisconnect
    \/ \E id \in SceneIds : RemoteSceneChange(id)
    \/ RemoteOtherEvent
    \/ RemoteDisconnect

Spec == Init /\ [][Next]_vars

\* select! polls its branches in random order, so a branch that is ready again
\* and again is taken; an awaited remote call is answered or fails
\* The configuration is ConfigB, whose entries give dispatches that await the
\* remote session as well as messages with nothing to dispatch.
FairInit == Init /\ mappings = ConfigB

FairSpec ==
    /\ FairInit
    /\ [][Next]_vars
    /\ SF_vars(LoopRecvMessage)
    /\ SF_vars(LoopRecvEvent)
    /\ WF_vars(DispatchOk \/ DispatchErr)
    /\ WF_vars((\E scene_inputs \in ItemLists(pending) : GatherOk(scene_inputs))
               \/ GatherErr)

(***************************************************************************)
(* The message path alone: one raw message, drawn from every status byte   *)
(* shape, every code byte and every length, goes through process_input;    *)
(* the event it yields is then dispatched with an action by execute_action *)
(***************************************************************************)
\* longest raw message drawn
MaxRawLen == 3

\* every high nibble, with the lowest and the highest channel
StatusBytes == {16 * hi + lo : hi \in 0..15, lo \in {0, 15}}
CodeBytes == 0..255
ValueBytes == {0, 1, 64, 127, 128, 255}

RawOfLen(status, code, value, len) ==
    SubSeq(<<status, code, value>> \o [i \in 1..MaxRawLen |-> 0], 1, len)

PathRawMessages ==
    {RawOfLen(status, code, value, len) :
        status \in StatusBytes, code \in CodeBytes, value \in ValueBytes,
        len \in 0..MaxRawLen}

\* the toggle-a-scene-item action kind of the specification's data model;
\* no arm of execute_action matches it
ToggleSceneItem(name) ==
    [kind |-> "ToggleSceneItem", name |-> name, value |-> NoVol]

PathActions ==
    {SetScene("Camera A"), SetVolume("Mic", VolPass), SetVolume("Mic", VolValue(0)),
     SetVolume("Mic", VolValue(50)), SetVolume("Mic", VolValue(100)),
     SetVolume("Ghost", VolPass), ToggleInput("Mic"), EnableSceneItem("cam"),
     DisableSceneItem("cam"), ToggleSceneItem("cam")}

PathInit ==
    /\ scenes = SceneCatalog
    /\ inputs = InputCatalog
    /\ mappings = ConfigA
    /\ pc_mappings = EmptyMap
    /\ cc_mappings = EmptyMap
    /\ lpd8_messages = <<>>
    /\ lpd8_open = TRUE
    /\ events = <<>>
    /\ connected = TRUE
    /\ remote_scene = "scene-A"
    /\ pc = "callback"
    /\ initial_scene = ""
    /\ current_scene = [id |-> "scene-A",
                        inputs |-> [n \in {"cam", "mic"} |-> IF n = "cam" THEN 11 ELSE 12]]
    /\ pending = ""
    /\ \E raw \in PathRawMessages : cur = [NoCur EXCEPT !.raw = raw]
    /\ issued = <<>>
    /\ outcome = "none"
    /\ disabled = {}
    /\ refresh_failed = FALSE

\* the callback's call of process_input on the raw message
PathNormalize ==
    /\ pc = "callback"
    /\ cur' = [cur EXCEPT !.msg = process_input(cur.raw)]
    /\ pc' = "normalized"
    /\ UNCHANGED <<refresh_failed, scenes, inputs, mappings, pc_mappings,
                   cc_mappings, lpd8_messages, lpd8_open, events, connected,
                   remote_scene, initial_scene, current_scene, pending, issued,
                   outcome, disabled>>

\* the loop's call of execute_action for the event, with the action its
\* tables hold for it
PathDispatch(action) ==
    /\ pc = "normalized"
    /\ cur.msg # NoMessage
    /\ LET command == execute_action(action, TriggerValue(cur.msg),
                                     current_scene, scenes, inputs)
       IN issued' = IF command = NoCommand THEN <<>> ELSE <<command>>
    /\ cur' = [cur EXCEPT !.action = action]
    /\ pc' = "dispatched"
    /\ UNCHANGED <<refresh_failed, scenes, inputs, mappings, pc_mappings,
                   cc_mappings, lpd8_messages, lpd8_open, events, connected,
                   remote_scene, initial_scene, current_scene, pending,
                   outcome, disabled>>

PathNext ==
    \/ PathNormalize
    \/ \E action \in PathActions : PathDispatch(action)

PathSpec == PathInit /\ [][PathNext]_vars

(***************************************************************************)
(* Properties                                                              *)
(***************************************************************************)
\* two entries of different blocks with the same input and the same trigger
\* (the same value, or both unconditional)
HasDuplicate(blocks) ==
    \E i, j \in 1..Len(blocks) :
        /\ i < j
        /\ \E input \in (DOMAIN blocks[i]) \cap (DOMAIN blocks[j]) :
               blocks[i][input].on = blocks[j][input].on

\* the loop was spawned
Spawned == pc \in {"select", "dispatch_wait", "gather_wait", "panicked"}

\* C1: building the control-change table from blocks with two entries for
\* the same (input, value), or two defaults for the same input, fails before
\* any event is processed: no table is built and the loop is never spawned.
C1_DuplicateEntriesRejected ==
    HasDuplicate(mappings.control_changes) =>
        (cc_mappings = EmptyMap /\ ~Spawned)

\* what the mapping table is required to answer for an event
ExpectedAction(msg) ==
    IF msg.kind = "ProgramChange"
    THEN IF msg.input \in DOMAIN pc_mappings THEN pc_mappings[msg.input]
         ELSE NoAction
    ELSE IF msg.input \notin DOMAIN cc_mappings THEN NoAction
    ELSE IF msg.value \in DOMAIN cc_mappings[msg.input].by_value
         THEN cc_mappings[msg.input].by_value[msg.value]
    ELSE IF cc_mappings[msg.input].default # NoAction
         THEN cc_mappings[msg.input].default
    ELSE NoAction

\* C2: a control change resolves to the action keyed by its value, else to
\* the default of its input's action set, else to no action; a program
\* change resolves to the program-change table's action, else to no action.
C2_ResolutionPrecedence ==
    cur # NoCur => cur.action = ExpectedAction(cur.msg)

\* a value entry was preferred to a different default
C2_Witness ==
    /\ cur.msg.kind = "ControlChange"
    /\ cur.msg.input \in DOMAIN cc_mappings
    /\ cur.msg.value \in DOMAIN cc_mappings[cur.msg.input].by_value
    /\ cc_mappings[cur.msg.input].default # NoAction
    /\ cur.action = cc_mappings[cur.msg.input].by_value[cur.msg.value]
    /\ cur.action # cc_mappings[cur.msg.input].default

\* C3: whenever the cache can be read, its item map is an item list fetched
\* for its scene id, never the items of one scene under the id of another.
C3_CacheSnapshotAtomic ==
    Running => current_scene.inputs \in ItemLists(current_scene.id)

\* the cache was replaced and a queued control event is about to read it
C3_Witness ==
    /\ outcome = "replaced"
    /\ pc = "select"
    /\ lpd8_messages # <<>>

\* C4: a scene-change notification whose item query fails leaves the cache
\* as it was, and the loop goes back to waiting for events.
C4_GatherFailureKeepsCache ==
    [][(pc = "gather_wait" /\ outcome' = "gather_error") =>
           (current_scene' = current_scene /\ pc' = "select")]_vars

\* the query failed and the cache still holds a scene the remote has left
C4_Witness ==
    /\ outcome = "gather_error"
    /\ pc = "select"
    /\ current_scene.id # remote_scene

\* the loop takes the head of the device queue in this step
MessageTaken == pc = "select" /\ Len(lpd8_messages') < Len(lpd8_messages)

\* C5: an event that resolves to nothing, or whose remote command fails,
\* returns the loop to its running state, where the next event of either
\* source can be taken; the loop never leaves an event by a panic.
C5_FailureKeepsLoopRunning ==
    /\ [][/\ MessageTaken => pc' \in {"select", "dispatch_wait"}
          /\ pc = "dispatch_wait" => pc' \in {"dispatch_wait", "select"}
          /\ (pc = "dispatch_wait" /\ outcome' = "action_error") => pc' = "select"]_vars
    /\ []((outcome = "action_error" /\ pc = "select") =>
            /\ lpd8_messages # <<>> => ENABLED LoopRecvMessage
            /\ events # <<>> => ENABLED LoopRecvEvent)

\* a remote command failed and events of both sources wait for the loop
C5_Witness ==
    /\ outcome = "action_error"
    /\ pc = "select"
    /\ lpd8_messages # <<>>
    /\ events # <<>>

\* C6: once the pending select! has found a source closed, the loop takes no
\* further event from the other source.
C6_ExhaustionEndsLoop ==
    [][(pc = "select" /\ disabled # {}) =>
           /\ Len(lpd8_messages') >= Len(lpd8_messages)
           /\ Len(events') >= Len(events)]_vars

\* C7: the loop never ends in a panic.
C7_NoPanicOnClosedSources == pc # "panicked"

\* C8: an item-visibility command names the cached scene id and the item id
\* the cached map holds for the action's name, so its item id is in an item
\* list fetched for the scene it names.
C8_ItemCommandScopedToCache ==
    \A i \in 1..Len(issued) :
        issued[i].kind = "set_enabled" =>
            /\ \E items \in ItemLists(issued[i].target) :
                   issued[i].item \in Range(items)
            /\ pc = "dispatch_wait" =>
                   /\ issued[i].target = current_scene.id
                   /\ cur.action.name \in DOMAIN current_scene.inputs
                   /\ issued[i].item = current_scene.inputs[cur.action.name]

\* an item command is in flight while a scene-change notification waits
C8_Witness ==
    /\ pc = "dispatch_wait"
    /\ issued # <<>>
    /\ issued[1].kind = "set_enabled"
    /\ events # <<>>
    /\ Head(events).type = "CurrentProgramSceneChanged"

\* the target name of an action resolves (scene and input names in the
\* catalogs, item names in the scene cache cs)
TargetResolves(action, cs) ==
    IF action.kind = "SetScene" THEN action.name \in DOMAIN scenes
    ELSE IF action.kind \in {"SetVolume", "ToggleInput"}
         THEN action.name \in DOMAIN inputs
    ELSE action.name \in DOMAIN cs.inputs

\* C9: dispatching an action whose target name does not resolve issues no
\* remote command and reports no error; the loop stays at its select.
C9_UnresolvedNameIsNoOp ==
    [][(MessageTaken /\ cur'.action # NoAction
          /\ ~TargetResolves(cur'.action, current_scene)) =>
           (issued' = <<>> /\ outcome' = "none" /\ pc' = "select")]_vars

\* EnableSceneItem of a name absent from the current scene was dispatched
C9_Witness ==
    /\ cur.action.kind = "EnableSceneItem"
    /\ cur.action.name \notin DOMAIN current_scene.inputs
    /\ issued = <<>>
    /\ outcome = "none"
    /\ pc = "select"

\* C10: commands are only issued when the loop takes a message, at most one
\* per message and exactly one when the message's action resolves; [0xC0, 0]
\* with Pad1 -> SetScene of a known scene gives one set-scene command with
\* the scene's id, and a control change of a knob with only a default
\* ToggleInput of a known input gives one toggle-mute command.
C10_OneCommandPerMessage ==
    [][/\ issued' # issued => MessageTaken
       /\ MessageTaken =>
            /\ cur'.raw = Head(lpd8_messages).raw
            /\ Len(issued') <= 1
            /\ (cur'.action # NoAction
                  /\ TargetResolves(cur'.action, current_scene)) =>
                   Len(issued') = 1
            /\ (cur'.raw = <<192, 0>> /\ "Pad1" \in DOMAIN pc_mappings
                  /\ pc_mappings["Pad1"] = SetScene("Camera A")) =>
                   issued' = <<SetCurrentProgramScene(scenes["Camera A"])>>
            /\ (Len(cur'.raw) = 3 /\ cur'.raw[1] = 176 /\ cur'.raw[2] = 70
                  /\ "Knob1" \in DOMAIN cc_mappings
                  /\ cc_mappings["Knob1"] =
                       [by_value |-> EmptyMap, default |-> ToggleInput("Mic")]) =>
                   issued' = <<ToggleMute(inputs["Mic"])>>]_vars

\* a control change of the default-only knob gave exactly the toggle command
C10_Witness ==
    /\ cur.raw = <<176, 70, 1>>
    /\ "Knob1" \in DOMAIN cc_mappings
    /\ cc_mappings["Knob1"] = [by_value |-> EmptyMap, default |-> ToggleInput("Mic")]
    /\ issued = <<ToggleMute("input-mic")>>

(***************************************************************************)
(* The channel at its real capacity: the loop is running on ConfigA, the   *)
(* remote session is quiet, and the device delivers control changes of     *)
(* Knob1 that it numbers in their value byte                               *)
(***************************************************************************)
\* mpsc::channel(100)
ChannelCapacity == 100
\* number of the last message the device delivers
MaxSeq == 110

ChannelInit ==
    /\ scenes = SceneCatalog
    /\ inputs = InputCatalog
    /\ mappings = ConfigA
    /\ pc_mappings = ConfigA.program_changes
    /\ cc_mappings = build_cc_mappings(ConfigA.control_changes)
    /\ lpd8_messages = <<>>
    /\ lpd8_open = TRUE
    /\ events = <<>>
    /\ connected = TRUE
    /\ remote_scene = "scene-A"
    /\ pc = "select"
    /\ initial_scene = ""
    /\ current_scene = [id |-> "scene-A", inputs |-> [n \in {"cam"} |-> 11]]
    /\ pending = ""
    /\ cur = NoCur
    /\ issued = <<>>
    /\ outcome = "none"
    /\ disabled = {}
    /\ refresh_failed = FALSE

\* the number of the next message: one more than the last one enqueued
NextSeq ==
    IF lpd8_messages # <<>> THEN lpd8_messages[Len(lpd8_messages)].msg.value + 1
    ELSE IF cur # NoCur THEN cur.msg.value + 1
    ELSE 0

NextRaw == <<176, 70, NextSeq>>

DeviceCallbackNext ==
    /\ NextSeq <= MaxSeq
    /\ Callback(NextRaw, ChannelCapacity)

ChannelNext ==
    \/ DeviceCallbackNext
    \/ LoopRecvMessage
    \/ DispatchOk
    \/ DispatchErr

ChannelSpec == ChannelInit /\ [][ChannelNext]_vars

(***************************************************************************)
(* Properties of the message path (PathSpec)                               *)
(***************************************************************************)
\* the raw message has been through process_input
Normalized == pc \in {"normalized", "dispatched"}

\* C11: process_input yields a ProgramChange only for a two-byte message
\* whose status byte has high nibble 0xC, a ControlChange only for a
\* three-byte message whose status byte has high nibble 0xB, and no event
\* for any other shape
C11_EventOnlyForItsShape ==
    Normalized =>
        /\ cur.msg.kind = "ProgramChange" =>
               Len(cur.raw) = 2 /\ cur.raw[1] \div 16 = 12
        /\ cur.msg.kind = "ControlChange" =>
               Len(cur.raw) = 3 /\ cur.raw[1] \div 16 = 11

\* C12: every ControlChange the normalizer emits carries a value in 0..127;
\* a third byte outside that range yields no event
C12_ControlValueInRange ==
    (Normalized /\ cur.msg.kind = "ControlChange") => cur.msg.value \in 0..127

\* the reference table of raw codes
PadInputs == <<"Pad1", "Pad2", "Pad3", "Pad4", "Pad5", "Pad6", "Pad7", "Pad8">>
KnobInputs ==
    <<"Knob1", "Knob2", "Knob3", "Knob4", "Knob5", "Knob6", "Knob7", "Knob8">>
ReferenceInput(code) ==
    IF code \in 0..7 THEN PadInputs[code + 1]
    ELSE IF code \in 12..19 THEN PadInputs[code - 11]
    ELSE IF code \in 70..77 THEN KnobInputs[code - 69]
    ELSE UnknownInput

KnobsDistinct ==
    \A j \in 0..7 :
        /\ \A k \in 0..7 : j # k => TryFromU8(70 + j) # TryFromU8(70 + k)
        /\ \A c \in 0..19 : TryFromU8(70 + j) # TryFromU8(c)

\* C13: the conversion of a raw code equals the reference table for every
\* byte: k and k+12 give pad k+1, 70..77 give eight distinct knobs apart from
\* the pads, any other code does not resolve and the message then yields no
\* event, the normalizer returning normally
C13_ConversionMatchesTable ==
    /\ KnobsDistinct
    /\ (Normalized /\ Len(cur.raw) >= 2) =>
           /\ TryFromU8(cur.raw[2]) = ReferenceInput(cur.raw[2])
           /\ cur.msg # NoMessage => cur.msg.input = ReferenceInput(cur.raw[2])
           /\ ReferenceInput(cur.raw[2]) = UnknownInput => cur.msg = NoMessage

C13_Witness ==
    /\ pc = "normalized"
    /\ cur.raw = <<176, 19, 64>>
    /\ cur.msg = ControlChange("Pad8", 64)

\* the value byte the event was triggered with: the third raw byte of a
\* control change, 0 for a program change
RawTriggerValue == IF cur.msg.kind = "ControlChange" THEN cur.raw[3] ELSE 0

\* C14: a SetVolume action whose name resolves issues one set-volume command
\* for that input with the ratio value/127 in pass mode (127 gives 1, 0 gives
\* 0) and configured/100 in fixed mode whatever the value
C14_VolumeRatio ==
    (/\ pc = "dispatched"
     /\ cur.action.kind = "SetVolume"
     /\ cur.action.name \in DOMAIN inputs) =>
        /\ Len(issued) = 1
        /\ issued[1].kind = "set_volume"
        /\ issued[1].target = inputs[cur.action.name]
        /\ issued[1].den > 0
        /\ cur.action.value.mode = "Pass" =>
               /\ issued[1].num * 127 = RawTriggerValue * issued[1].den
               /\ RawTriggerValue = 127 => issued[1].num = issued[1].den
               /\ RawTriggerValue = 0 => issued[1].num = 0
        /\ cur.action.value.mode = "Value" =>
               issued[1].num * 100 = cur.action.value.v * issued[1].den

C14_Witness ==
    /\ pc = "dispatched"
    /\ cur.raw = <<176, 70, 127>>
    /\ cur.action = SetVolume("Mic", VolPass)
    /\ issued = <<SetVolumeMul("input-mic", 127, 127)>>

\* C15: dispatching a ToggleSceneItem action whose name resolves in the
\* cached scene's items issues an item-visibility command for that item,
\* scoped to the cached scene id
C15_ToggleSceneItemDispatched ==
    (/\ pc = "dispatched"
     /\ cur.action.kind = "ToggleSceneItem"
     /\ cur.action.name \in DOMAIN current_scene.inputs) =>
        /\ Len(issued) = 1
        /\ issued[1].kind = "set_enabled"
        /\ issued[1].target = current_scene.id
        /\ issued[1].item = current_scene.inputs[cur.action.name]

\* C20: every set-volume command issued carries a ratio between 0 and 1
C20_RatioNormalised ==
    \A i \in 1..Len(issued) :
        issued[i].kind = "set_volume" =>
            /\ 0 <= issued[i].num
            /\ issued[i].num <= issued[i].den

(***************************************************************************)
(* Properties of the event loop (Spec), continued                          *)
(***************************************************************************)
\* the loop is suspended on a remote call made for the event it took
InFlight == pc \in {"dispatch_wait", "gather_wait"}

\* C16: from taking an event until its work is complete the loop takes no
\* other event from either source; the cache is not replaced while a
\* dispatch is in flight, and no dispatch starts while a refresh query is
\* outstanding
C16_OneEventAtATime ==
    [][InFlight =>
          /\ Len(lpd8_messages') >= Len(lpd8_messages)
          /\ Len(events') >= Len(events)
          /\ pc' \in {pc, "select"}
          /\ pc = "dispatch_wait" => current_scene' = current_scene
          /\ pc = "gather_wait" => cur' = cur /\ issued' = issued]_vars

C16_Witness ==
    /\ pc = "dispatch_wait"
    /\ lpd8_messages # <<>>
    /\ events # <<>>
    /\ Head(events).type = "CurrentProgramSceneChanged"

\* C17: once the loop has processed every scene-change notification emitted
\* and no refresh query has failed, the cached scene id is the remote
\* session's actual active scene, whatever happened during startup
C17_CacheFollowsRemote ==
    (/\ pc = "select"
     /\ events = <<>>
     /\ ~refresh_failed) => current_scene.id = remote_scene

(***************************************************************************)
(* Properties of the channel (ChannelSpec)                                 *)
(***************************************************************************)
\* the queued events carry consecutive numbers that follow the number of
\* the event the loop took last
QueueInArrivalOrder ==
    /\ \A i \in 1..(Len(lpd8_messages) - 1) :
           lpd8_messages[i + 1].msg.value = lpd8_messages[i].msg.value + 1
    /\ lpd8_messages # <<>> =>
           lpd8_messages[1].msg.value =
               IF cur = NoCur THEN 0 ELSE cur.msg.value + 1

\* C18: the queue never holds more than 100 events; on a full queue the
\* callback cannot complete (it blocks, it does not drop); every message the
\* callback completes on is appended as its normalized event; the loop takes
\* the oldest event, each number once and in the order of arrival, and
\* dispatches it
C18_NoLossInArrivalOrder ==
    /\ [](Len(lpd8_messages) <= ChannelCapacity)
    /\ [](Len(lpd8_messages) = ChannelCapacity =>
              ~ENABLED Callback(NextRaw, ChannelCapacity))
    /\ []QueueInArrivalOrder
    /\ [][IF MessageTaken
          THEN /\ lpd8_messages' = Tail(lpd8_messages)
               /\ cur'.msg = Head(lpd8_messages).msg
               /\ cur'.msg.value = IF cur = NoCur THEN 0 ELSE cur.msg.value + 1
               /\ issued' = <<ToggleMute("input-mic")>>
          ELSE /\ cur' = cur
               /\ issued' = issued
               /\ \/ lpd8_messages' = lpd8_messages
                  \/ lpd8_messages' =
                       Append(lpd8_messages,
                              [msg |-> ControlChange("Knob1", NextSeq),
                               raw |-> NextRaw])]_vars

C18_Witness ==
    /\ Len(lpd8_messages) = ChannelCapacity
    /\ pc = "select"
    /\ cur # NoCur
    /\ cur.msg.value = 5
    /\ lpd8_messages[ChannelCapacity].msg.value = 105

(***************************************************************************)
(* Properties of the event loop under fair scheduling (FairSpec)           *)
(***************************************************************************)
\* C19: neither source has priority: it never happens that, from some point
\* on, the loop runs with a notification waiting in the stream and takes no
\* notification any more, nor that it runs with an event waiting in the
\* channel and takes no event any more, whatever the other source delivers
\* (both queues are first-in first-out, so each waiting entry is reached)
C19_NoSourceStarves ==
    /\ \/ []<>(~Running \/ events = <<>>)
       \/ []<><<LoopRecvEvent>>_vars
    /\ \/ []<>(~Running \/ lpd8_messages = <<>>)
       \/ []<><<LoopRecvMessage>>_vars

C19_Witness ==
    /\ pc = "gather_wait"
    /\ Len(lpd8_messages) = QueueCap
    /\ cur # NoCur

(***************************************************************************)
(* Frame properties of the event loop (Spec)                               *)
(***************************************************************************)
\* the loop takes a notification that is not a scene change
OtherEventTaken ==
    /\ pc = "select"
    /\ events # <<>>
    /\ Head(events).type # "CurrentProgramSceneChanged"
    /\ Len(events') < Len(events)

\* C21: handling a notification of any type other than the scene change
\* leaves the scene cache unchanged, starts no refresh query, issues no
\* command and leaves the loop at its select!
C21_OtherEventIgnored ==
    [][OtherEventTaken =>
          /\ current_scene' = current_scene
          /\ pending' = pending
          /\ refresh_failed' = refresh_failed
          /\ issued' = issued
          /\ cur' = cur
          /\ pc' = "select"]_vars

\* a refresh has failed earlier and the event handled last, which reset the
\* outcome, was neither a message nor a scene change
C21_Witness ==
    /\ pc = "select"
    /\ refresh_failed
    /\ outcome = "none"
    /\ cur = NoCur
    /\ current_scene.id # remote_scene

\* C22: once the loop runs, the two tables and the two catalogs keep the
\* values they had when it started, whatever event is processed and however
\* it ends; the scene cache changes only when the refresh made for a
\* scene-change notification is answered
C22_TablesAndCatalogsFrozen ==
    /\ [](Running =>
              /\ pc_mappings = mappings.program_changes
              /\ cc_mappings = build_cc_mappings(mappings.control_changes)
              /\ scenes = SceneCatalog
              /\ inputs = InputCatalog)
    /\ [][Running =>
              /\ pc_mappings' = pc_mappings
              /\ cc_mappings' = cc_mappings
              /\ scenes' = scenes
              /\ inputs' = inputs
              /\ current_scene' # current_scene =>
                     pc = "gather_wait" /\ current_scene'.id = pending]_vars

C22_Witness ==
    /\ pc = "select"
    /\ outcome = "replaced"
    /\ refresh_failed
    /\ cur # NoCur
    /\ issued # <<>>
    /\ pc_mappings = mappings.program_changes
    /\ cc_mappings = build_cc_mappings(mappings.control_changes)

(***************************************************************************)
(* Properties of the message path (PathSpec), continued                    *)
(***************************************************************************)
\* C23: a program change is dispatched with triggering value 0: a SetVolume
\* action in pass mode dispatched for it issues a set-volume command of ratio
\* 0, whatever the pad
C23_ProgramChangePassIsZero ==
    (/\ pc = "dispatched"
     /\ cur.msg.kind = "ProgramChange"
     /\ cur.action.kind = "SetVolume"
     /\ cur.action.value.mode = "Pass"
     /\ cur.action.name \in DOMAIN inputs) =>
        issued = <<SetVolumeMul(inputs[cur.action.name], 0, 127)>>

C23_Witness ==
    /\ pc = "dispatched"
    /\ cur.raw = <<192, 7>>
    /\ cur.msg = ProgramChange("Pad8")
    /\ cur.action = SetVolume("Mic", VolPass)
    /\ issued = <<SetVolumeMul("input-mic", 0, 127)>>
====
